---- MODULE Spec2Model ----
(***************************************************************************)
(* State-machine model of src/optimizar_imagenes.py: the GitImageOptimizer *)
(* class (setup, relocation, per-image derivative generation, the batch    *)
(* loop, git publish) and the main() entry point.                          *)
(*                                                                         *)
(* A source file is identified by its stem (Path(image_path).stem).  Two   *)
(* files matched by "*.png" in one directory differ in their names, hence  *)
(* in their stems, so stems 1..MaxSources stand for the file names.        *)
(* A source file has one of three kinds, fixed by its content:             *)
(*   "png"      a decodable image,                                         *)
(*   "corrupt"  a file Image.open / convert rejects,                       *)
(*   "dangling" a directory entry os.path.getsize cannot stat (a broken    *)
(*              symbolic link named x.png, which glob still lists).        *)
(* Failures of img.copy / thumbnail / save are environmental (memory, disk *)
(* full, permissions): they are injected nondeterministically at each pair,*)
(* at most MaxFaults times in a behaviour.  No other process touches the   *)
(* directories while a run is in progress.                                 *)
(***************************************************************************)
EXTENDS Integers, Sequences, FiniteSets, TLC

\* ---------------------------------------------------------------- bounds
MaxSources == 3
MaxFaults == 1
MaxRuns == 2

\* ------------------------------------------------------- program constants
\* self.sizes_config: a dict, iterated in insertion order
sizes_config ==
    << [name |-> "thumb",  size |-> <<300, 300>>,   quality |-> 70],
       [name |-> "medium", size |-> <<800, 800>>,   quality |-> 80],
       [name |-> "large",  size |-> <<1200, 1200>>, quality |-> 85] >>

\* the two img_resized.save calls of one loop iteration, in program order
Encodings ==
    << [format |-> "WEBP", ext |-> "webp"],
       [format |-> "JPEG", ext |-> "jpg"] >>

optimized_folder == "optimizadas/Anillos"

\* number of save calls optimize_image makes for one source
NPairs == Len(sizes_config) * Len(Encodings)

\* the k-th save call of optimize_image: which profile, which encoding
ProfileOf(k) == sizes_config[((k - 1) \div Len(Encodings)) + 1]
EncodingOf(k) == Encodings[((k - 1) % Len(Encodings)) + 1]

Stems == 1 .. MaxSources
Kinds == {"png", "corrupt", "dangling"}

VARIABLES
    repo,             \* "ok" | "missing" | "nogit": what main() finds at repo_path
    originals,        \* originales/Anillos: stem -> kind, or "none"
    legacy,           \* Anillos (unmanaged folder): stem -> kind, or "none"
    disk,             \* set of artifact paths present under optimizadas/Anillos
    run,              \* 1 for the first execution of the program, 2.. for re-runs
    pc,               \* position of the running process
    image_files,      \* the glob result of process_all_images
    idx,              \* position of the for loop in image_files
    k,                \* next save call (1..NPairs) inside optimize_image
    success_count,
    processed_files,  \* self.processed_files
    results,          \* return values of the optimize_image calls of this run
    written,          \* stem -> artifact paths optimize_image saved for it in this run
    faults,           \* environmental failures injected so far
    publishCalls,     \* invocations of git_commit_and_push in this run
    gitLog,           \* git commands run in this run, in order, each with how it ended
    staged,           \* artifact files covered by `git add optimizadas/`
    stagedIgnore,     \* whether `git add .gitignore` was run
    commitCount,      \* the number embedded in the commit message
    pubReport,        \* what git_commit_and_push printed / returned
    crashed,          \* an exception left run_full_optimization
    exitCode,         \* the process exit status once pc = "done"
    prev              \* what the previous execution left: files, results, written, disk

vars == << repo, originals, legacy, disk, run, pc, image_files, idx, k,
           success_count, processed_files, results, written, faults,
           publishCalls, gitLog, staged, stagedIgnore, commitCount, pubReport,
           crashed, exitCode, prev >>

\* Faulty variant: the profile directory is left out of the join, so the three
\* profiles of a source share one file per encoding.
ArtifactPathFlat(filename, size_name, ext) ==
    << optimized_folder, "", filename, ext >>

\* Faulty variant: the file name depends on the execution (a timestamped or
\* numbered output name), so a re-run writes beside the earlier files.
ArtifactPathPerRun(filename, size_name, ext) ==
    << optimized_folder, size_name, filename + MaxSources * (run - 1), ext >>

\* os.path.join(self.optimized_folder, size_name, f"{filename}.<ext>")
ArtifactPath(filename, size_name, ext) ==
    << optimized_folder, size_name, filename, ext >>

\* the path written by the k-th save call for a stem
PairPath(filename, j) ==
    ArtifactPath(filename, ProfileOf(j).name, EncodingOf(j).ext)

\* glob.glob(os.path.join(self.original_folder, "*.png")), in listing order
RECURSIVE Listing(_, _)
Listing(dir, s) ==
    IF s > MaxSources THEN << >>
    ELSE IF dir[s] = "none" THEN Listing(dir, s + 1)
    ELSE << s >> \o Listing(dir, s + 1)

NoPrev == [files |-> << >>, results |-> << >>,
           written |-> [s \in Stems |-> {}], disk |-> {},
           originals |-> [s \in Stems |-> "none"]]

Init ==
    /\ repo \in {"ok", "missing", "nogit"}
    /\ \E n \in 0 .. MaxSources :
         \E kind \in [1 .. n -> Kinds], loc \in [1 .. n -> {"originales", "Anillos"}] :
            /\ originals = [s \in Stems |->
                   IF s <= n /\ loc[s] = "originales" THEN kind[s] ELSE "none"]
            /\ legacy = [s \in Stems |->
                   IF s <= n /\ loc[s] = "Anillos" THEN kind[s] ELSE "none"]
    /\ disk = {}
    /\ run = 1
    /\ pc = "main"
    /\ image_files = << >>
    /\ idx = 0
    /\ k = 0
    /\ success_count = 0
    /\ processed_files = << >>
    /\ results = << >>
    /\ written = [s \in Stems |-> {}]
    /\ faults = 0
    /\ publishCalls = 0
    /\ gitLog = << >>
    /\ staged = {}
    /\ stagedIgnore = FALSE
    /\ commitCount = 0
    /\ pubReport = "none"
    /\ crashed = FALSE
    /\ exitCode = 0
    /\ prev = NoPrev

fsVars == << repo, originals, legacy, disk >>
genVars == << image_files, idx, k, success_count, processed_files, results, written >>
pubVars == << publishCalls, gitLog, staged, stagedIgnore, commitCount, pubReport >>

\* The interpreter's exit status: 0 when main() returns, 1 on an uncaught exception
Return == /\ pc' = "done" /\ exitCode' = 0 /\ crashed' = FALSE
Uncaught == /\ pc' = "done" /\ exitCode' = 1 /\ crashed' = TRUE

\* main(): both os.path.exists checks, then run_full_optimization
Main ==
    /\ pc = "main"
    /\ IF repo = "ok"
         THEN pc' = "setup" /\ UNCHANGED << exitCode, crashed >>
         ELSE Return
    /\ UNCHANGED << fsVars, run, genVars, faults, pubVars, prev >>

\* setup_git_structure: makedirs + rewrite .gitignore; an OSError is not caught
Setup ==
    /\ pc = "setup"
    /\ \E ok \in BOOLEAN :
         IF ok THEN pc' = "move" /\ UNCHANGED << exitCode, crashed >>
         ELSE Uncaught
    /\ UNCHANGED << fsVars, run, genVars, faults, pubVars, prev >>

\* move_existing_images: rename every Anillos/*.png into originales/Anillos;
\* a failed rename is printed and skipped
Move ==
    /\ pc = "move"
    /\ LET present == {s \in Stems : legacy[s] # "none"} IN
       \E moved \in SUBSET present :
          /\ faults + Cardinality(present \ moved) <= MaxFaults
          /\ faults' = faults + Cardinality(present \ moved)
          /\ originals' = [s \in Stems |-> IF s \in moved THEN legacy[s] ELSE originals[s]]
          /\ legacy' = [s \in Stems |-> IF s \in moved THEN "none" ELSE legacy[s]]
    /\ pc' = "discover"
    /\ UNCHANGED << repo, disk, run, genVars, pubVars, crashed, exitCode, prev >>

\* process_all_images, lines 133-139: glob, the empty check; on an empty
\* listing it returns False and run_full_optimization returns (lines 211-213)
Discover ==
    /\ pc = "discover"
    /\ image_files' = Listing(originals, 1)
    /\ IF image_files' = << >>
         THEN Return /\ UNCHANGED << idx, success_count >>
         ELSE /\ pc' = "optimize" /\ idx' = 1 /\ success_count' = 0
              /\ UNCHANGED << crashed, exitCode >>
    /\ UNCHANGED << fsVars, run, k, processed_files, results, written, faults,
                    pubVars, prev >>

InLoop == pc = "optimize" /\ idx <= Len(image_files)
Current == image_files[idx]

\* optimize_image, line 93: os.path.getsize(image_path) sits before the try;
\* its OSError leaves optimize_image, the for loop, run_full_optimization and main
StatFails ==
    /\ InLoop
    /\ originals[Current] = "dangling"
    /\ Uncaught
    /\ UNCHANGED << fsVars, run, genVars, faults, pubVars, prev >>

\* what the for loop of process_all_images does with optimize_image's result
LoopStep(ok) ==
    /\ results' = Append(results, ok)
    /\ success_count' = IF ok THEN success_count + 1 ELSE success_count
    /\ idx' = idx + 1
    /\ pc' = "optimize"
    /\ k' = 0

\* optimize_image, lines 97-100 and 125-127: Image.open / convert raise inside
\* the try; the except prints and returns False
DecodeFails ==
    /\ InLoop
    /\ originals[Current] = "corrupt"
    /\ LoopStep(FALSE)
    /\ UNCHANGED << fsVars, run, image_files, processed_files, written, faults,
                    pubVars, crashed, exitCode, prev >>

\* optimize_image, lines 97-102: the image opens; the profile loop starts
DecodeOk ==
    /\ InLoop
    /\ originals[Current] = "png"
    /\ pc' = "save"
    /\ k' = 1
    /\ UNCHANGED << fsVars, run, image_files, idx, success_count, processed_files,
                    results, written, faults, pubVars, crashed, exitCode, prev >>

\* line 121: self.processed_files.extend([webp_path, jpg_path]) runs after the
\* last save of a profile
ExtendProcessed(files, filename, j) ==
    IF j % Len(Encodings) = 0
      THEN files \o [e \in 1 .. Len(Encodings) |->
                        ArtifactPath(filename, ProfileOf(j).name, Encodings[e].ext)]
      ELSE files

\* lines 104-123: the k-th copy/thumbnail/save succeeds; after the last one
\* optimize_image returns True
SaveOk ==
    /\ pc = "save"
    /\ disk' = disk \cup {PairPath(Current, k)}
    /\ written' = [written EXCEPT ![Current] = @ \cup {PairPath(Current, k)}]
    /\ processed_files' = ExtendProcessed(processed_files, Current, k)
    /\ IF k = NPairs
         THEN LoopStep(TRUE)
         ELSE /\ k' = k + 1
              /\ UNCHANGED << pc, idx, success_count, results >>
    /\ UNCHANGED << repo, originals, legacy, run, image_files, faults, pubVars,
                    crashed, exitCode, prev >>

\* Faulty variant: the except branch removes what the source had produced.
AfterFailedSaveRollback(files, filename, j, left) ==
    files \ {PairPath(filename, i) : i \in 1 .. NPairs}

\* The output tree after the k-th save raised.  The code has no cleanup; the
\* save call itself leaves either nothing or an incomplete file at its path.
AfterFailedSave(files, filename, j, left) ==
    IF left THEN files \cup {PairPath(filename, j)} ELSE files

\* lines 104-113 and 125-127: the k-th copy/thumbnail/save raises; the except
\* prints and returns False
SaveFails ==
    /\ pc = "save"
    /\ faults < MaxFaults
    /\ faults' = faults + 1
    /\ \E left \in BOOLEAN : disk' = AfterFailedSave(disk, Current, k, left)
    /\ LoopStep(FALSE)
    /\ UNCHANGED << repo, originals, legacy, run, image_files, processed_files,
                    written, pubVars, crashed, exitCode, prev >>

\* Faulty variant: an off-by-one in the comparison.
ProcessReturnNonNegative(count) == count >= 0

\* line 147: return success_count > 0
ProcessReturn(count) == count > 0

\* lines 146-147 and 211-216: the loop is over; run_full_optimization either
\* returns or calls git_commit_and_push
Summary ==
    /\ pc = "optimize"
    /\ idx > Len(image_files)
    /\ IF ProcessReturn(success_count)
         THEN /\ pc' = "chdir"
              /\ publishCalls' = publishCalls + 1
              /\ UNCHANGED << crashed, exitCode >>
         ELSE Return /\ UNCHANGED publishCalls
    /\ UNCHANGED << fsVars, run, genVars, faults, gitLog, staged, stagedIgnore,
                    commitCount, pubReport, prev >>

\* git_commit_and_push returns (True or False) and run_full_optimization
\* prints its last lines and returns (lines 216-225)
PublishReturns(report) ==
    /\ pubReport' = report
    /\ Return

\* line 155: os.chdir; an OSError is caught by `except Exception` (line 178)
Chdir ==
    /\ pc = "chdir"
    /\ \E ok \in BOOLEAN :
         IF ok THEN pc' = "add_optimizadas" /\ UNCHANGED << pubReport, crashed, exitCode >>
         ELSE PublishReturns("unexpected")
    /\ UNCHANGED << fsVars, run, genVars, faults, publishCalls, gitLog, staged,
                    stagedIgnore, commitCount, prev >>

\* Faulty variant: check=True is missing, so a non-zero exit goes unnoticed.
CheckedIgnoringExit(out, next) ==
    CASE out = "hang" -> pc' = "blocked" /\ UNCHANGED << pubReport, crashed, exitCode >>
      [] OTHER        -> pc' = next /\ UNCHANGED << pubReport, crashed, exitCode >>

\* subprocess.run(..., check=True) without timeout=: the git child process,
\* once started, exits 0, exits non-zero (CalledProcessError, line 175), or
\* never exits; with no timeout the call then never returns
Checked(out, next) ==
    CASE out = "ok"    -> pc' = next /\ UNCHANGED << pubReport, crashed, exitCode >>
      [] out = "error" -> PublishReturns("git_error")
      [] out = "hang"  -> pc' = "blocked" /\ UNCHANGED << pubReport, crashed, exitCode >>

\* subprocess.run without check=: result.returncode is tested (lines 168-173)
Unchecked(out) ==
    CASE out = "ok"    -> PublishReturns("ok")
      [] out = "error" -> PublishReturns("push_error")
      [] out = "hang"  -> pc' = "blocked" /\ UNCHANGED << pubReport, crashed, exitCode >>

ExitKinds == {"ok", "error", "hang"}

\* line 158: git add optimizadas/  -- the whole output tree, as it is on disk
GitAddOptimizadas ==
    /\ pc = "add_optimizadas"
    /\ staged' = disk
    /\ \E out \in ExitKinds :
         /\ gitLog' = Append(gitLog, << "add optimizadas/", out >>)
         /\ Checked(out, "add_gitignore")
    /\ UNCHANGED << fsVars, run, genVars, faults, publishCalls, stagedIgnore,
                    commitCount, prev >>

\* line 159: git add .gitignore
GitAddGitignore ==
    /\ pc = "add_gitignore"
    /\ stagedIgnore' = TRUE
    /\ \E out \in ExitKinds :
         /\ gitLog' = Append(gitLog, << "add .gitignore", out >>)
         /\ Checked(out, "commit")
    /\ UNCHANGED << fsVars, run, genVars, faults, publishCalls, staged,
                    commitCount, prev >>

\* lines 162-163: the message embeds len(self.processed_files)
GitCommit ==
    /\ pc = "commit"
    /\ commitCount' = Len(processed_files)
    /\ \E out \in ExitKinds :
         /\ gitLog' = Append(gitLog, << "commit", out >>)
         /\ Checked(out, "push")
    /\ UNCHANGED << fsVars, run, genVars, faults, publishCalls, staged,
                    stagedIgnore, prev >>

\* lines 166-173: git push, capture_output, no check=, no timeout=
GitPush ==
    /\ pc = "push"
    /\ \E out \in ExitKinds :
         /\ gitLog' = Append(gitLog, << "push", out >>)
         /\ Unchecked(out)
    /\ UNCHANGED << fsVars, run, genVars, faults, publishCalls, staged,
                    stagedIgnore, commitCount, prev >>

\* The program is started again on the same repository: a new process, a new
\* GitImageOptimizer (lines 15-19), the directories as the last run left them
NewRun ==
    /\ pc = "done"
    /\ run < MaxRuns
    /\ run' = run + 1
    /\ prev' = [files |-> image_files, results |-> results, written |-> written,
                disk |-> disk, originals |-> originals]
    /\ pc' = "main"
    /\ image_files' = << >>
    /\ idx' = 0
    /\ k' = 0
    /\ success_count' = 0
    /\ processed_files' = << >>
    /\ results' = << >>
    /\ written' = [s \in Stems |-> {}]
    /\ publishCalls' = 0
    /\ gitLog' = << >>
    /\ staged' = {}
    /\ stagedIgnore' = FALSE
    /\ commitCount' = 0
    /\ pubReport' = "none"
    /\ crashed' = FALSE
    /\ exitCode' = 0
    /\ UNCHANGED << fsVars, faults >>

Next ==
    \/ Main
    \/ Setup
    \/ Move
    \/ Discover
    \/ StatFails
    \/ DecodeFails
    \/ DecodeOk
    \/ SaveOk
    \/ SaveFails
    \/ Summary
    \/ Chdir
    \/ GitAddOptimizadas
    \/ GitAddGitignore
    \/ GitCommit
    \/ GitPush
    \/ NewRun

Spec == Init /\ [][Next]_vars

\* -------------------------------------------------------------- properties

\* the sources of this run on which optimize_image has returned
Returned == 1 .. Len(results)
NumOk(rs) == Cardinality({i \in 1 .. Len(rs) : rs[i]})

\* the six artifacts of a stem, spelled out
SixPaths(s) ==
    << << "optimizadas/Anillos", "thumb",  s, "webp" >>,
       << "optimizadas/Anillos", "thumb",  s, "jpg" >>,
       << "optimizadas/Anillos", "medium", s, "webp" >>,
       << "optimizadas/Anillos", "medium", s, "jpg" >>,
       << "optimizadas/Anillos", "large",  s, "webp" >>,
       << "optimizadas/Anillos", "large",  s, "jpg" >> >>

ManifestOf(s) ==
    LET Mine(p) == p[3] = s IN SelectSeq(processed_files, Mine)

Range(f) == {f[i] : i \in DOMAIN f}

\* C1: every source on which optimize_image returned True has exactly six
\* artifacts, one per (profile, encoding) pair, at
\* optimizadas/Anillos/<profile>/<stem>.<ext>, recorded in catalog order with
\* webp before jpg in each profile, and all six are on disk.
C1_SixArtifactsInOrder ==
    \A i \in Returned :
        results[i] =>
            LET s == image_files[i] IN
            /\ ManifestOf(s) = SixPaths(s)
            /\ written[s] = Range(SixPaths(s))
            /\ Cardinality(written[s]) = 6
            /\ written[s] \subseteq disk

C1_Witness ==
    /\ Len(results) >= 2
    /\ results[1] /\ results[2]
    /\ Len(processed_files) = 12

\* C2: whenever a run has met a source that fails decoding, the batch still
\* goes through every later source and ends with a summary in which the failed
\* count (total minus success_count) is the number of sources that did not
\* succeed, the corrupt one counting for exactly one.
C2_DecodeFailureIsolated ==
    (pc = "done" /\ \E i \in Returned : originals[image_files[i]] = "corrupt")
        => /\ ~crashed
           /\ Len(results) = Len(image_files)
           /\ \A i \in Returned : originals[image_files[i]] = "corrupt" => ~results[i]
           /\ Len(image_files) - success_count
                 = Cardinality({i \in Returned : ~results[i]})

\* C3: git_commit_and_push is invoked at most once in a run, only after the
\* loop has gone through every discovered source, and never when no source
\* succeeded (nothing discovered, or every discovered source failed).
C3_PublishGated ==
    /\ publishCalls <= 1
    /\ (publishCalls = 0) => (gitLog = << >> /\ pubReport = "none")
    /\ (publishCalls > 0) =>
          /\ NumOk(results) > 0
          /\ image_files = Listing(originals, 1)
          /\ Len(results) = Len(image_files)
          /\ idx > Len(image_files)

C3_Witness ==
    /\ pc = "done"
    /\ ~crashed
    /\ Len(image_files) >= 2
    /\ Len(results) = Len(image_files)
    /\ NumOk(results) = 0
    /\ publishCalls = 0

\* C4: no failure of a discovered source leaves optimize_image: once sources
\* were discovered the run never ends on an uncaught exception, and the loop
\* reaches the last discovered source.
C4_NoItemFailureEscapes ==
    (pc = "done" /\ image_files # << >>)
        => (~crashed /\ Len(results) = Len(image_files))

\* C5: when the k-th save of a source fails, optimize_image returns False and
\* the loop moves to the next source with nothing deleted: the files saved
\* for that source before the failure are still on disk; no save is made for a
\* source after optimize_image returned for it; and the result is True exactly
\* when all six saves of the source completed.
C5_FailStopsNoRollback ==
    [][ /\ (Len(results') = Len(results) + 1 /\ ~results'[Len(results')])
            => /\ disk \subseteq disk'
               /\ written[Current] \subseteq disk'
               /\ written' = written
               /\ processed_files' = processed_files
               /\ idx' = idx + 1
               /\ pc' = "optimize"
        /\ (run' = run) =>
              \A i \in Returned : written'[image_files[i]] = written[image_files[i]]
        /\ \A i \in 1 .. Len(results') :
              results'[i] <=> (Cardinality(written'[image_files'[i]]) = 6)
      ]_vars

C5_Witness ==
    \E i \in Returned :
        /\ ~results[i]
        /\ Cardinality(written[image_files[i]]) = 3
        /\ written[image_files[i]] \subseteq disk
        /\ i < Len(results)

\* C6: a run that goes through main() to its end exits non-zero exactly when
\* no source was discovered or no source succeeded, and zero otherwise.
C6_ExitCode ==
    (pc = "done" /\ repo = "ok" /\ ~crashed)
        => ((exitCode # 0) <=> (image_files = << >> \/ NumOk(results) = 0))

\* C7: what `git add` stages is exactly the manifest (processed_files) plus
\* .gitignore, the commit message carries the size of the manifest, and when
\* every failed source failed at decode that size is six per succeeded source.
C7_StagedIsManifest ==
    /\ (gitLog # << >>) => staged = Range(processed_files)
    /\ (Len(gitLog) >= 2) => stagedIgnore
    /\ (Len(gitLog) >= 3) =>
          /\ commitCount = Len(processed_files)
          /\ (\A i \in Returned : ~results[i] => originals[image_files[i]] = "corrupt")
                => commitCount = 6 * success_count

PublishOrder ==
    << "add optimizadas/", "add .gitignore", "commit", "push" >>

\* C8: the git commands of one git_commit_and_push are a prefix of add, add,
\* commit, push, each run once and only after all earlier ones exited 0; a
\* failed add or commit ends the publish as a git error with no push; a push
\* failure is reported as a push error, after add and commit succeeded; and no
\* step of the publish changes the success count, the manifest or the files.
C8_PublishSteps ==
    /\ [](/\ Len(gitLog) <= Len(PublishOrder)
          /\ \A i \in 1 .. Len(gitLog) :
                /\ gitLog[i][1] = PublishOrder[i]
                /\ (i < Len(gitLog)) => gitLog[i][2] = "ok"
          /\ (pubReport = "git_error") =>
                /\ pc = "done"
                /\ gitLog # << >>
                /\ gitLog[Len(gitLog)][2] = "error"
                /\ gitLog[Len(gitLog)][1] # "push"
          /\ (pubReport = "push_error") =>
                /\ pc = "done"
                /\ Len(gitLog) = Len(PublishOrder)
                /\ gitLog[Len(gitLog)] = << "push", "error" >>
          /\ (pubReport = "ok") =>
                /\ Len(gitLog) = Len(PublishOrder)
                /\ gitLog[Len(gitLog)] = << "push", "ok" >>)
    /\ [][ (pc \in {"chdir", "add_optimizadas", "add_gitignore", "commit", "push"})
              => UNCHANGED << success_count, processed_files, results, written, disk >>
         ]_vars

C8_Witness ==
    /\ pc = "done"
    /\ pubReport = "push_error"
    /\ Len(processed_files) = 6

\* C9: no operation blocks for ever: as long as the run has not ended the
\* process has a step to take, a git command that never exits included (a
\* timeout ends the wait and the publish returns as failed).
C9_NeverBlocked ==
    (pc # "done") => ENABLED Next

\* The source directory is as the previous run found it
SameSources == originals = prev.originals

\* optimize_image returned for stem s in the previous run / returned True
PrevReturned(s) == \E i \in 1 .. Len(prev.results) : prev.files[i] = s
PrevOk(s) == \E i \in 1 .. Len(prev.results) : prev.files[i] = s /\ prev.results[i]

\* C10 (as stated): run again on an unchanged source, optimize_image saves to
\* exactly the paths it saved to the first time, and a batch run again on an
\* unchanged directory leaves exactly the files the first batch left.
C10_SamePathsBothRuns ==
    (run > 1 /\ pc = "done" /\ SameSources) =>
        /\ \A i \in Returned :
              PrevReturned(image_files[i])
                  => written[image_files[i]] = prev.written[image_files[i]]
        /\ (/\ image_files # << >>
            /\ prev.files = image_files
            /\ Len(results) = Len(image_files)
            /\ Len(prev.results) = Len(prev.files))
              => disk = prev.disk

\* C10 (amended): for a source on which the previous run's optimize_image
\* returned True, a later run on the unchanged source saves only to paths
\* written the first time and to all of them when it returns True again; and
\* when every source of the previous batch succeeded, a re-run on the unchanged
\* directory never changes the set of files under the output root.
C10_IdempotentAfterSuccess ==
    (run > 1 /\ SameSources) =>
        /\ \A s \in Stems :
              PrevOk(s) =>
                 /\ written[s] \subseteq prev.written[s]
                 /\ (\E i \in Returned : image_files[i] = s /\ results[i])
                        => written[s] = prev.written[s]
        /\ (prev.files # << >> /\ \A i \in 1 .. Len(prev.files) : PrevOk(prev.files[i]))
              => disk = prev.disk

C10_Witness ==
    /\ run > 1
    /\ pc = "done"
    /\ SameSources
    /\ Len(prev.files) >= 2
    /\ \A i \in 1 .. Len(prev.files) : PrevOk(prev.files[i])
    /\ NumOk(results) = Len(image_files)
    /\ disk = prev.disk
    /\ Cardinality(disk) = 12

====
